---- MODULE Spec2Model ----
(***************************************************************************)
(* Model of jay-tux/prop: event<Out> (inc/event.hpp) and property<T,copy>  *)
(* (inc/property.hpp).                                                     *)
(*                                                                         *)
(* Memory is a set of int cells: the caller's variables x and y, and the   *)
(* `val` member of every property<int,true>.  A property<int> holds a      *)
(* reference (`ref`) to one of the caller's variables.  Every property     *)
(* owns an event<int&> (`_set`); a free-standing event<int&> `e` models    *)
(* the event used on its own.  The domains of mem, ref and listeners are   *)
(* the objects the calling program has constructed.  Callbacks run inline: *)
(* a firing is a frame on `stack`, and each iteration of the loop in       *)
(* event::trigger is one step.  A callback that calls set on its own       *)
(* property puts a second frame on top of the one it runs in.              *)
(***************************************************************************)
EXTENDS Integers, Sequences, FiniteSets

VARIABLES
  mem,        \* the value of every int cell
  ref,        \* property<T,false>::ref : the variable a reference property is bound to
  listeners,  \* event::listeners of every event
  calls,      \* the counter of the counting callback; the caller zeroes it
              \* before each call it makes
  stack,      \* the firings in progress
  log,        \* the callback invocations made by the innermost firing
  ret         \* what the last call gave back to the caller

vars == <<mem, ref, listeners, calls, stack, log, ret>>

\* ---------------------------------------------------------------- bounds
MaxReg == 2      \* registrations made on the properties, in total
MaxListeners == 3 \* registrations made on the free-standing event
MaxChain == 3    \* callbacks on the property whose callbacks call set again

\* ---------------------------------------------------------------- objects
Val == {0, 1, 2}
Vars == {"x", "y"}
RefProps == {"p", "q"}
OwnProps == {"a", "b"}
Props == RefProps \cup OwnProps
Events == Props \cup {"e"}
Cells == Vars \cup OwnProps

\* the programs explored: which variables and properties the caller declares
\*   int x;    property<int> p(x), q(x);
\*   int x, y; property<int> p(x), q(y);
\*   int x;    property<int> p(x);  property<int,true> a(x), b(v);
Programs ==
  { [vars |-> {"x"},      refs |-> {"p", "q"}, owns |-> {}],
    [vars |-> {"x", "y"}, refs |-> {"p", "q"}, owns |-> {}],
    [vars |-> {"x"},      refs |-> {"p"},      owns |-> {"a", "b"}] }

\* callbacks: a counter (`calls++`), a rewrite through the reference
\* (`v = k`), and one that raises when it is handed the value k
Count == <<"count", 0>>
ThrowOn(k) == <<"throw", k>>
Write(k) == <<"write", k>>
Throw == ThrowOn(1)
Callbacks == {Count, Throw, Write(2)}
\* the free-standing event also takes a second rewriting callback
EventCallbacks == Callbacks \cup {Write(1)}
\* a callback that calls p.set(k) on the property it is registered on, unless
\* it is itself running inside such a call (`if (!busy) { busy = true;
\* p.set(k); busy = false; }` with the flag reset on every exit)
Reenter(k) == <<"reenter", k>>
ReentrantCallbacks == {Count, Write(2), Reenter(1), ThrowOn(2)}

\* what a call gives back to its caller: nothing, an exception, *this,
\* a reference to the stored value, or a value; IllFormed is what the caller
\* has of a declaration the compiler rejects
IllFormed == <<"ill-formed", 0>>
Void == <<"void", 0>>
Exc == <<"exception", 0>>
Self == <<"*this", 0>>
Lvalue == <<"reference", 0>>
Value(v) == <<"value", v>>
NoProp == "none"

\* ---------------------------------------------------------------- helpers
RECURSIVE SumLen(_, _)
SumLen(f, S) ==
  IF S = {} THEN 0
  ELSE LET w == CHOOSE w \in S : TRUE IN Len(f[w]) + SumLen(f, S \ {w})

\* (mutation of slot: an owned property keeps a reference to x)
slotAliased(w) == IF w \in RefProps THEN ref[w] ELSE "x"

\* the storage a property's get() refers to
slot(w) == IF w \in RefProps THEN ref[w] ELSE w

\* the properties and the variables of the running program
Live == DOMAIN listeners \ {"e"}
LiveOwn == Live \cap OwnProps
LiveVars == DOMAIN mem \cap Vars

get(w) == mem[slot(w)]

Idle == stack = <<>>

Top == stack[Len(stack)]

\* (mutation of listenerAt: the loop runs from the back of the vector)
listenerAtReverse(f) == listeners[f.ev][Len(listeners[f.ev]) + 1 - f.i]

\* `for (auto &listener : listeners)`: the listener of the iteration frame f is in
listenerAt(f) == listeners[f.ev][f.i]

\* (mutation of payload: every callback is handed the value of the call)
payloadSnapshot(f) == f.v

\* `listener(val)`: val is a reference, the callback sees the cell as it is now
payload(f) == mem[f.cell]

\* the callback raises instead of returning
Raises(cb, seen) == cb[1] = "throw" /\ cb[2] = seen

\* the callback calls set on its property: it is a re-entering callback and
\* no firing is nested in another yet
Reenters(cb) == cb[1] = "reenter" /\ Len(stack) = 1

\* the lists of at most n callbacks drawn from S
SeqsUpTo(S, n) == UNION {[1..k -> S] : k \in 0..n}

\* ---------------------------------------------------------------- event
\* (mutation of trigger: one event shared by all the properties)
triggerShared(w, cell, op, v, src) ==
  /\ stack' = Append(stack, [ev |-> "p", cell |-> cell, i |-> 1,
                             op |-> op, v |-> v, src |-> src,
                             old |-> mem[cell], saved |-> <<>>])
  /\ log' = <<>>
  /\ calls' = 0
  /\ ret' = Void

\* event::trigger entered with a reference to `cell`; the frame also keeps
\* `old`, the value the cell held when the caller made the call, and `saved`,
\* the invocations already made by the firing it is nested in (none when the
\* program itself made the call)
trigger(w, cell, op, v, src) ==
  /\ stack' = Append(stack, [ev |-> w, cell |-> cell, i |-> 1,
                             op |-> op, v |-> v, src |-> src,
                             old |-> mem[cell], saved |-> <<>>])
  /\ log' = <<>>
  /\ calls' = 0
  /\ ret' = Void

\* event::operator+ : emplace_back
Register(w, cb) ==
  /\ Idle
  /\ IF w = "e" THEN Len(listeners[w]) < MaxListeners
                ELSE SumLen(listeners, Live) < MaxReg
  /\ listeners' = [listeners EXCEPT ![w] = Append(@, cb)]
  /\ ret' = Void
  /\ calls' = 0
  /\ UNCHANGED <<mem, ref, stack, log>>

\* the caller fires the free-standing event with a reference to x
Trigger(x) ==
  /\ Idle
  /\ trigger("e", x, "trigger", mem[x], NoProp)
  /\ UNCHANGED <<mem, ref, listeners>>

\* (mutation of Invoke: trigger catches what a callback raises and goes on)
InvokeCatch ==
  /\ ~Idle
  /\ Top.i <= Len(listeners[Top.ev])
  /\ ~Reenters(listenerAt(Top))
  /\ LET f == Top
         cb == listenerAt(f)
         seen == payload(f)
     IN /\ log' = Append(log, [ev |-> f.ev, idx |-> f.i, cb |-> cb,
                               seen |-> seen])
        /\ stack' = [stack EXCEPT ![Len(stack)].i = f.i + 1]
        /\ calls' = IF cb = Count THEN calls + 1 ELSE calls
        /\ mem' = IF cb[1] = "write"
                    THEN [mem EXCEPT ![f.cell] = cb[2]]
                    ELSE mem
        /\ UNCHANGED ret
  /\ UNCHANGED <<ref, listeners>>

\* (mutation of Invoke: the callback is handed a copy, as an event<int> would)
InvokeByValue ==
  /\ ~Idle
  /\ Top.i <= Len(listeners[Top.ev])
  /\ ~Reenters(listenerAt(Top))
  /\ LET f == Top
         cb == listenerAt(f)
         seen == payload(f)
     IN IF Raises(cb, seen)
          THEN /\ stack' = <<>>
               /\ log' = <<>>
               /\ ret' = Exc
               /\ UNCHANGED <<mem, calls>>
          ELSE /\ log' = Append(log, [ev |-> f.ev, idx |-> f.i, cb |-> cb,
                                      seen |-> seen])
               /\ stack' = [stack EXCEPT ![Len(stack)].i = f.i + 1]
               /\ calls' = IF cb = Count THEN calls + 1 ELSE calls
               /\ UNCHANGED <<mem, ret>>
  /\ UNCHANGED <<ref, listeners>>

\* one iteration of the loop of event::trigger: listener(val).  Nothing
\* catches what a callback raises: it unwinds trigger and the handler that
\* called it.
Invoke ==
  /\ ~Idle
  /\ Top.i <= Len(listeners[Top.ev])
  /\ ~Reenters(listenerAt(Top))
  /\ LET f == Top
         cb == listenerAt(f)
         seen == payload(f)
     IN IF Raises(cb, seen)
          THEN /\ stack' = <<>>
               /\ log' = <<>>
               /\ ret' = Exc
               /\ UNCHANGED <<mem, calls>>
          ELSE /\ log' = Append(log, [ev |-> f.ev, idx |-> f.i, cb |-> cb,
                                      seen |-> seen])
               /\ stack' = [stack EXCEPT ![Len(stack)].i = f.i + 1]
               /\ calls' = IF cb = Count THEN calls + 1 ELSE calls
               /\ mem' = IF cb[1] = "write"
                           THEN [mem EXCEPT ![f.cell] = cb[2]]
                           ELSE mem
               /\ UNCHANGED ret
  /\ UNCHANGED <<ref, listeners>>

\* (mutation of Return: operator=(T) gives back its argument)
ReturnArgument ==
  /\ ~Idle
  /\ Top.i > Len(listeners[Top.ev])
  /\ stack' = SubSeq(stack, 1, Len(stack) - 1)
  /\ ret' = CASE Len(stack) > 1 -> ret
              [] Top.op = "assign" -> Value(Top.v)
              [] Top.op \in {"assignprop", "move"} -> Self
              [] OTHER -> Void
  /\ log' = Top.saved
  /\ UNCHANGED <<mem, ref, listeners, calls>>

\* (mutation of InvokeReenter: the firing the callback starts replaces the
\* one it runs in, whose remaining callbacks are dropped)
InvokeReenterAbandon ==
  /\ ~Idle
  /\ Top.i <= Len(listeners[Top.ev])
  /\ Reenters(listenerAt(Top))
  /\ LET f == Top
         cb == listenerAt(f)
         entered == Append(log, [ev |-> f.ev, idx |-> f.i, cb |-> cb,
                                 seen |-> payload(f)])
     IN /\ mem' = [mem EXCEPT ![slot(f.ev)] = cb[2]]
        /\ stack' = Append([stack EXCEPT ![Len(stack)].i =
                                           Len(listeners[f.ev]) + 1],
                           [ev |-> f.ev, cell |-> slot(f.ev), i |-> 1,
                            op |-> "set", v |-> cb[2], src |-> NoProp,
                            old |-> mem[slot(f.ev)], saved |-> entered])
        /\ log' = <<>>
  /\ UNCHANGED <<ref, listeners, calls, ret>>

\* an iteration of the loop of event::trigger whose callback calls
\* set(k) on its own property: the callback is entered (and counts as
\* invoked), set stores k and enters trigger again, `ref = value;
\* _set.trigger(ref);`.  The firing the callback runs in goes on with its next
\* callback once that set has returned.
InvokeReenter ==
  /\ ~Idle
  /\ Top.i <= Len(listeners[Top.ev])
  /\ Reenters(listenerAt(Top))
  /\ LET f == Top
         cb == listenerAt(f)
         entered == Append(log, [ev |-> f.ev, idx |-> f.i, cb |-> cb,
                                 seen |-> payload(f)])
     IN /\ mem' = [mem EXCEPT ![slot(f.ev)] = cb[2]]
        /\ stack' = Append([stack EXCEPT ![Len(stack)].i = f.i + 1],
                           [ev |-> f.ev, cell |-> slot(f.ev), i |-> 1,
                            op |-> "set", v |-> cb[2], src |-> NoProp,
                            old |-> mem[slot(f.ev)], saved |-> entered])
        /\ log' = <<>>
  /\ UNCHANGED <<ref, listeners, calls, ret>>

\* the loop of event::trigger is over and the handler returns to its caller:
\* operator=(T) gives back the stored value, operator=(property) gives *this.
\* A set called by a callback returns to that callback, whose firing goes on.
Return ==
  /\ ~Idle
  /\ Top.i > Len(listeners[Top.ev])
  /\ stack' = SubSeq(stack, 1, Len(stack) - 1)
  /\ ret' = CASE Len(stack) > 1 -> ret
              [] Top.op = "assign" -> Value(mem[Top.cell])
              [] Top.op \in {"assignprop", "move"} -> Self
              [] OTHER -> Void
  /\ log' = Top.saved
  /\ UNCHANGED <<mem, ref, listeners, calls>>

\* ---------------------------------------------------------------- property
\* operator+ : forwards to the event's operator+
Observe(w, cb) == w \in Live /\ Register(w, cb)

\* (mutation of set: the value is never stored)
setNoStore(w, v) ==
  /\ Idle
  /\ trigger(w, slot(w), "set", v, NoProp)
  /\ UNCHANGED <<mem, ref, listeners>>

\* (mutation of set: nothing is triggered when the value does not change)
setIfChanged(w, v) ==
  /\ Idle
  /\ IF v = get(w)
       THEN /\ ret' = Void
            /\ calls' = 0
            /\ UNCHANGED <<mem, ref, listeners, stack, log>>
       ELSE /\ mem' = [mem EXCEPT ![slot(w)] = v]
            /\ trigger(w, slot(w), "set", v, NoProp)
            /\ UNCHANGED <<ref, listeners>>

\* (mutation of set: with no callback to notify the value is not stored)
setIfObserved(w, v) ==
  /\ Idle
  /\ mem' = IF listeners[w] = <<>> THEN mem ELSE [mem EXCEPT ![slot(w)] = v]
  /\ trigger(w, slot(w), "set", v, NoProp)
  /\ UNCHANGED <<ref, listeners>>

\* set(const T &value): `ref = value; _set.trigger(ref);` (val in owned mode)
set(w, v) ==
  /\ Idle
  /\ mem' = [mem EXCEPT ![slot(w)] = v]
  /\ trigger(w, slot(w), "set", v, NoProp)
  /\ UNCHANGED <<ref, listeners>>

\* (mutation of setProp: the copy goes the wrong way)
setPropBackwards(w, o) ==
  /\ Idle
  /\ mem' = [mem EXCEPT ![slot(o)] = get(w)]
  /\ trigger(w, slot(w), "setprop", get(o), o)
  /\ UNCHANGED <<ref, listeners>>

\* set(const property<T,_copy> &value): `ref = value.get(); _set.trigger(ref);`
setProp(w, o) ==
  /\ Idle
  /\ mem' = [mem EXCEPT ![slot(w)] = get(o)]
  /\ trigger(w, slot(w), "setprop", get(o), o)
  /\ UNCHANGED <<ref, listeners>>

\* (mutation of AssignVal: the event is triggered before the value is stored)
AssignValLate(w, v) ==
  /\ Idle
  /\ trigger(w, slot(w), "assign", v, NoProp)
  /\ UNCHANGED <<mem, ref, listeners>>

\* T operator=(T val): `ref = val; _set.trigger(ref); return ref;`
\* (operator=(T &val) has the same body)
AssignVal(w, v) ==
  /\ Idle
  /\ mem' = [mem EXCEPT ![slot(w)] = v]
  /\ trigger(w, slot(w), "assign", v, NoProp)
  /\ UNCHANGED <<ref, listeners>>

\* the test the template operator=(const property<T,_copy> &other) makes
\* before it writes: TRUE when it returns *this at once.
\*   property<T,false>: if constexpr (!_copy) { if (this != &other) return *this; }
\*   property<T,true> : if (this == &other) return *this;
SkipAssign(w, o) ==
  IF w \in RefProps THEN o \in RefProps /\ w # o
                    ELSE w = o

\* template <bool _copy> operator=(const property<T,_copy> &other).
\* In owned mode the template only instantiates for an owned `other`
\* (it reads other.val).  For two properties of the same mode the expression
\* `w = o` does not reach the template (see CopyAssign); the template is
\* reached by naming it, w.operator=<_copy>(o).
AssignProp(w, o) ==
  /\ Idle
  /\ w \in OwnProps => o \in OwnProps
  /\ IF SkipAssign(w, o)
       THEN /\ ret' = Self
            /\ calls' = 0
            /\ UNCHANGED <<mem, ref, listeners, stack, log>>
       ELSE /\ mem' = [mem EXCEPT ![slot(w)] = get(o)]
            /\ trigger(w, slot(w), "assignprop", get(o), o)
            /\ UNCHANGED <<ref, listeners>>

\* `w = o` for two property<T,true>: overload resolution prefers the
\* implicitly-defined copy assignment operator to the template of the same
\* signature; it assigns the members val and _set and fires nothing.
\* (For two property<T,false> the implicit operator is deleted and `w = o`
\* is ill-formed.)
CopyAssign(w, o) ==
  /\ Idle
  /\ w \in OwnProps /\ o \in OwnProps
  /\ mem' = [mem EXCEPT ![w] = mem[o]]
  /\ listeners' = [listeners EXCEPT ![w] = listeners[o]]
  /\ ret' = Self
  /\ calls' = 0
  /\ UNCHANGED <<ref, stack, log>>

\* template <bool _copy> operator=(const property<T,_copy> &&other):
\* `ref = std::move(other.ref); _set.trigger(ref);` (val in owned mode);
\* it instantiates only for an `other` of the same mode
MoveAssign(w, o) ==
  /\ Idle
  /\ (w \in RefProps) = (o \in RefProps)
  /\ mem' = [mem EXCEPT ![slot(w)] = get(o)]
  /\ trigger(w, slot(w), "move", get(o), o)
  /\ UNCHANGED <<ref, listeners>>

\* property(property<T,false> &&prop) : ref{std::move(prop.ref)} {}, used as
\* `property<T> q(std::move(o));`.  The initializer binds the member `T &ref`
\* to the xvalue std::move(prop.ref); a non-const lvalue reference does not
\* bind to it, so the constructor cannot be instantiated: the declaration is
\* rejected and no object q comes to exist.
MoveConstruct(q, o) ==
  /\ Idle
  /\ o \in DOMAIN ref
  /\ q \in RefProps \ DOMAIN ref
  /\ ret' = IllFormed
  /\ calls' = 0
  /\ UNCHANGED <<mem, ref, listeners, stack, log>>

\* get() const, operator T() const: the caller reads the value
Read(w) ==
  /\ Idle
  /\ ret' = Value(get(w))
  /\ calls' = 0
  /\ UNCHANGED <<mem, ref, listeners, stack, log>>

\* (mutation of GetWrite: the write goes through set)
GetWriteNotifies(w, v) == set(w, v)

\* T &get(), operator T &(): the caller writes through the returned reference
GetWrite(w, v) ==
  /\ Idle
  /\ ret' = Lvalue
  /\ mem' = [mem EXCEPT ![slot(w)] = v]
  /\ calls' = 0
  /\ UNCHANGED <<ref, listeners, stack, log>>

\* the caller writes its own variable
ExtWrite(x, v) ==
  /\ Idle
  /\ mem' = [mem EXCEPT ![x] = v]
  /\ ret' = Void
  /\ calls' = 0
  /\ UNCHANGED <<ref, listeners, stack, log>>

\* ---------------------------------------------------------------- state
TypeOK ==
  /\ DOMAIN mem \subseteq Cells
  /\ \A c \in DOMAIN mem : mem[c] \in Val
  /\ DOMAIN ref \subseteq RefProps
  /\ \A w \in DOMAIN ref : ref[w] \in LiveVars
  /\ DOMAIN listeners \subseteq Events
  /\ \A w \in DOMAIN listeners :
        \A i \in 1..Len(listeners[w]) :
           listeners[w][i] \in EventCallbacks \cup ReentrantCallbacks
  /\ calls \in Nat
  /\ Len(stack) <= 2
  /\ ret \in {Void, Exc, Self, Lvalue, IllFormed} \cup {Value(v) : v \in Val}

\* the state after the declarations of one of the programs: a reference
\* property is bound to its variable, an owned one holds a copy of its
\* constructor argument, no callback is registered
Init ==
  /\ \E pr \in Programs :
        /\ mem \in [pr.vars \cup pr.owns -> Val]
        /\ "a" \in pr.owns => mem["a"] = mem["x"]
        /\ ref = [w \in pr.refs |->
                    IF w = "q" /\ "y" \in pr.vars THEN "y" ELSE "x"]
        /\ listeners = [w \in pr.refs \cup pr.owns |-> <<>>]
  /\ calls = 0
  /\ stack = <<>>
  /\ log = <<>>
  /\ ret = Void

\* event<int&> e; int x
InitEvent ==
  /\ mem \in [{"x"} -> Val]
  /\ ref = [w \in {} |-> "x"]
  /\ listeners = [w \in {"e"} |-> <<>>]
  /\ calls = 0
  /\ stack = <<>>
  /\ log = <<>>
  /\ ret = Void

Next ==
  \/ \E w \in Live, cb \in Callbacks : Observe(w, cb)
  \/ \E w \in Live, v \in Val : set(w, v)
  \/ \E w \in Live, o \in Live : setProp(w, o)
  \/ \E w \in Live, v \in Val : AssignVal(w, v)
  \/ \E w \in Live, o \in Live : AssignProp(w, o)
  \/ \E w \in LiveOwn, o \in LiveOwn : CopyAssign(w, o)
  \/ \E w \in Live, o \in Live : MoveAssign(w, o)
  \/ \E q \in RefProps, o \in Live : MoveConstruct(q, o)
  \/ \E w \in Live : Read(w)
  \/ \E w \in Live, v \in Val : GetWrite(w, v)
  \/ \E x \in LiveVars, v \in Val : ExtWrite(x, v)
  \/ Invoke
  \/ Return

Spec == Init /\ [][Next]_vars

NextEvent ==
  \/ \E cb \in EventCallbacks : Register("e", cb)
  \/ Trigger("x")
  \/ Invoke
  \/ Return

SpecEvent == InitEvent /\ [][NextEvent]_vars

\* int x; property<int> p(x); and the program has registered its callbacks,
\* among them callbacks that call p.set
InitReentrant ==
  /\ mem \in [{"x"} -> Val]
  /\ ref = [w \in {"p"} |-> "x"]
  /\ listeners \in [{"p"} -> SeqsUpTo(ReentrantCallbacks, MaxChain)]
  /\ calls = 0
  /\ stack = <<>>
  /\ log = <<>>
  /\ ret = Void

NextReentrant ==
  \/ \E v \in Val : set("p", v)
  \/ Invoke
  \/ InvokeReenter
  \/ Return

\* the callbacks run inline on the caller's thread: a firing in progress
\* takes its next step
SpecReentrant ==
  /\ InitReentrant
  /\ [][NextReentrant]_vars
  /\ WF_vars(Invoke \/ InvokeReenter \/ Return)

\* ---------------------------------------------------------------- vocabulary
\* the loop of the firing on top of the stack is over: the handler is about
\* to return, every effect of the call is in the state
Done == ~Idle /\ Top.i = Len(listeners[Top.ev]) + 1

Iota(n) == [k \in 1..n |-> k]

\* the listener indices invoked so far by the call in progress, in order
LogIdx == [k \in 1..Len(log) |-> log[k].idx]

\* no callback registered on w rewrites the value it is handed
NoRewriter(w) == \A k \in 1..Len(listeners[w]) : listeners[w][k][1] # "write"

\* the value an invoked callback left in the cell it was handed
Left(en) == IF en.cb[1] = "write" THEN en.cb[2] ELSE en.seen

\* a firing of w's own event has just begun
Fires(w) == ~Idle /\ Top.ev = w /\ Top.i = 1 /\ log = <<>>

\* this step is a call of set, set(property) or of one of the assignment
\* operators the property declares, on w (an assignment from another
\* property, not from w itself)
CallOn(w) ==
  \/ \E v \in Val : set(w, v) \/ AssignVal(w, v)
  \/ \E o \in Live : setProp(w, o)
  \/ \E o \in Live \ {w} : AssignProp(w, o) \/ MoveAssign(w, o)

\* the last entry before entry j of the log made by a callback that called
\* set (0 when there is none)
LastReentry(j) ==
  LET prior == {k \in 1..(j - 1) : log[k].cb[1] = "reenter"}
  IN IF prior = {} THEN 0
     ELSE CHOOSE k \in prior : \A m \in prior : m <= k

\* this step is a callback raising
ThrowStep ==
  /\ ~Idle
  /\ Top.i <= Len(listeners[Top.ev])
  /\ Raises(listenerAt(Top), payload(Top))

\* ---------------------------------------------------------------- claims

\* C1: a trigger of the event that runs to its end has invoked exactly the
\* registered callbacks c1..cn, each registration once (duplicates included),
\* in registration order and nothing else; at every moment of the firing the
\* invocations made so far are the first registrations, in order.  A
\* registration appends at the end, so the list order is registration order.
C1_TriggerInRegistrationOrder ==
  /\ [](~Idle =>
         /\ Len(log) = Top.i - 1
         /\ \A k \in 1..Len(log) :
              /\ log[k].ev = Top.ev
              /\ log[k].idx = k
              /\ log[k].cb = listeners[Top.ev][k])
  /\ [][\A cb \in EventCallbacks :
          Register("e", cb) => listeners'["e"] = Append(listeners["e"], cb)]_vars

C1_Witness ==
  /\ Done
  /\ Top.ev = "e"
  /\ Len(log) = 3
  /\ log[1].cb = log[3].cb
  /\ log[1].cb # log[2].cb

\* C2: every call of set(value), set(property), `w = value` or
\* `w = property` on a property with registered callbacks begins a firing of
\* that property's event, and a firing that runs to its end has invoked every
\* registered callback exactly once.
C2_EveryCallFiresOnce ==
  /\ [][\A w \in Live :
          (listeners[w] # <<>> /\ CallOn(w)) => Fires(w)']_vars
  /\ [](Done => LogIdx = Iota(Len(listeners[Top.ev])))

\* C3: when set(v) or `p = v` on a reference property with no rewriting
\* callback is about to return, get() and the variable the property is bound
\* to both equal v.
C3_RefSetWritesThrough ==
  (Done /\ Top.ev \in RefProps /\ Top.op \in {"set", "assign"}
        /\ NoRewriter(Top.ev))
    => (get(Top.ev) = Top.v /\ mem[ref[Top.ev]] = Top.v)

C3_Witness ==
  /\ Done
  /\ Top.ev = "p"
  /\ Top.op = "assign"
  /\ listeners["p"] = <<Count>>
  /\ calls = 1
  /\ Top.v = 1
  /\ mem["x"] = 1

\* C4: set(v) / `p = v` on an owned property (with no rewriting callback)
\* leaves get() at v; from the call to its return, callbacks included, no
\* variable of the caller and no other property changes value; and a write of
\* a caller's variable changes no owned property.
C4_OwnedSetIsPrivate ==
  /\ []((Done /\ Top.ev \in OwnProps /\ Top.op \in {"set", "assign"}
              /\ NoRewriter(Top.ev))
          => get(Top.ev) = Top.v)
  /\ [][\A w \in LiveOwn :
          ( \/ /\ Idle /\ ~Idle' /\ Top'.ev = w
               /\ \E v \in Val : set(w, v) \/ AssignVal(w, v)
            \/ ~Idle /\ Top.ev = w /\ Top.op \in {"set", "assign"} )
          => /\ \A x \in LiveVars : mem'[x] = mem[x]
             /\ \A o \in Live \ {w} : get(o)' = get(o)]_vars
  /\ [][\A x \in LiveVars :
          (\E v \in Val : ExtWrite(x, v))
          => \A w \in LiveOwn : get(w)' = get(w)]_vars

C4_Witness ==
  /\ Done
  /\ Top.ev = "a"
  /\ Top.op = "set"
  /\ get("a") = Top.v
  /\ mem["x"] # Top.v
  /\ get("p") = mem["x"]
  /\ listeners["a"] = <<Count>>

\* C5: reading a property and writing through the reference get() returns
\* invoke no callback and leave every listener list as it is (a read also
\* leaves every value); a step that begins a firing is a call of set or of an
\* assignment operator on the property whose event fires.
C5_ReadsAndDirectWritesFireNothing ==
  /\ [][\A w \in Live :
          (Read(w) \/ \E v \in Val : GetWrite(w, v))
          => (Idle' /\ log' = log /\ calls' = 0 /\ listeners' = listeners)]_vars
  /\ [][\A w \in Live : Read(w) => mem' = mem]_vars
  /\ [][(Idle /\ ~Idle')
          => LET w == Top'.ev
                 v == Top'.v
             IN \/ set(w, v) \/ AssignVal(w, v)
                \/ \E o \in Live :
                     setProp(w, o) \/ AssignProp(w, o) \/ MoveAssign(w, o)]_vars

C5_Witness ==
  /\ Idle
  /\ ret = Lvalue
  /\ listeners["p"] = <<Count, Write(2)>>
  /\ mem["x"] = 1

\* C6: in a firing with a reference payload the first callback sees the value
\* handed to trigger, callback i+1 sees exactly what callback i left, and the
\* referent holds what the last invoked callback left (so also when trigger
\* returns).
C6_MutationsVisibleDownstream ==
  ~Idle =>
    /\ \A k \in 1..Len(log) :
         log[k].seen = IF k = 1 THEN Top.v ELSE Left(log[k - 1])
    /\ mem[Top.cell] = IF log = <<>> THEN Top.v ELSE Left(log[Len(log)])

C6_Witness ==
  /\ Done
  /\ Top.ev = "e"
  /\ Top.v = 0
  /\ Len(log) = 3
  /\ log[1].cb = Write(2)
  /\ log[2].cb = Write(1)
  /\ log[2].seen = 2
  /\ log[3].seen = 1
  /\ mem["x"] = 1

\* C7: while a reference property is being assigned to itself no callback
\* is invoked (the counter stays 0) and the stored value stays what it was.
C7_RefSelfAssignIsNoop ==
  (~Idle /\ Top.ev \in RefProps /\ Top.op = "assignprop" /\ Top.src = Top.ev)
    => (log = <<>> /\ calls = 0 /\ mem[Top.cell] = Top.v)

\* C8: for two distinct properties of any mode combination `p = q`, p having
\* callbacks, copies q's value into p and begins a firing of p's event, as
\* p.set(q) does, and that firing invokes every callback of p once.
C8_AssignIsSetProp ==
  /\ [][\A w \in Live, o \in Live :
          (w # o /\ listeners[w] # <<>> /\ AssignProp(w, o))
          => (get(w)' = get(o) /\ Fires(w)')]_vars
  /\ []((Done /\ Top.op = "assignprop")
          => LogIdx = Iota(Len(listeners[Top.ev])))

\* C9: p.set(q) writes q's current value into p's slot (the bound variable
\* for a reference property) and begins a firing of p's event; that firing
\* invokes only p's callbacks, each once when it runs to its end; q's value
\* stays what it was at the call unless q shares p's storage.
C9_SetFromProperty ==
  /\ [][\A w \in Live, o \in Live :
          (Idle /\ ~Idle' /\ setProp(w, o))
          => /\ mem'[slot(w)] = get(o)
             /\ Fires(w)'
             /\ Top'.cell = slot(w)
             /\ slot(o) # slot(w) => get(o)' = get(o)]_vars
  /\ [](( ~Idle /\ Top.op = "setprop")
          => /\ \A k \in 1..Len(log) :
                  log[k].ev = Top.ev /\ log[k].cb = listeners[Top.ev][k]
             /\ slot(Top.src) # Top.cell => get(Top.src) = Top.v
             /\ Done => LogIdx = Iota(Len(listeners[Top.ev])))

C9_Witness ==
  /\ Done
  /\ Top.op = "setprop"
  /\ Top.ev = "p"
  /\ Top.src = "q"
  /\ ref["q"] = "y"
  /\ listeners["p"] = <<Count>>
  /\ listeners["q"] = <<Count>>
  /\ calls = 1
  /\ mem["x"] = mem["y"]

\* C10: when callback i raises, the firing ends there: the caller gets the
\* exception, callbacks i+1..n are not invoked for that change, no value is
\* rolled back (the slot keeps the new value when no earlier callback rewrote
\* it) and the listener list is unchanged; every later firing starts again at
\* the first callback and, run to its end, invokes all n.
C10_FailingCallbackAborts ==
  /\ [][ThrowStep
          => /\ Idle'
             /\ ret' = Exc
             /\ mem' = mem
             /\ listeners' = listeners
             /\ calls' = calls
             /\ (\A k \in 1..Len(log) : log[k].cb[1] # "write")
                  => mem'[Top.cell] = Top.v]_vars
  /\ [](~Idle => LogIdx = Iota(Top.i - 1))
  /\ [][(Idle /\ ~Idle') => (Top'.i = 1 /\ log' = <<>>)]_vars

C10_Witness ==
  /\ Idle
  /\ ret = Exc
  /\ listeners["p"] = <<Throw, Count>>
  /\ calls = 0
  /\ mem["x"] = 1

\* C11: a firing of an event with no registered callback invokes nothing and
\* changes nothing: the loop is over at once, the payload cell still holds the
\* value handed to trigger, and the return leaves every cell, binding and
\* listener list as it is.  set(v) on a property with no callback changes the
\* property's own slot to v and no other cell.
C11_NoListenersNoop ==
  /\ []((~Idle /\ listeners[Top.ev] = <<>>)
          => (Done /\ log = <<>> /\ calls = 0 /\ mem[Top.cell] = Top.v))
  /\ [][(~Idle /\ listeners[Top.ev] = <<>>)
          => (Idle' /\ mem' = mem /\ ref' = ref /\ listeners' = listeners
                    /\ calls' = 0 /\ log' = <<>>)]_vars
  /\ [][\A w \in Live :
          (Idle /\ listeners[w] = <<>> /\ \E v \in Val : ret' = Void /\ set(w, v))
          => /\ ~Idle' /\ Top'.ev = w
             /\ mem'[slot(w)] = Top'.v
             /\ \A c \in DOMAIN mem \ {slot(w)} : mem'[c] = mem[c]
             /\ listeners' = listeners]_vars

C11_Witness ==
  /\ Done
  /\ Top.ev = "p"
  /\ Top.op = "set"
  /\ listeners["p"] = <<>>
  /\ Top.v = 2
  /\ Top.old = 0
  /\ mem["x"] = 2

\* C12: when `p = v` returns (either mode), what it gives back is the value
\* p.get() has right after the return, also when a callback rewrote the value
\* during the firing; the return itself changes no cell.
C12_AssignReturnsStoredValue ==
  [][(Done /\ Top.op = "assign")
       => (Idle' /\ ref' = ref /\ ret' = Value(mem'[slot(Top.ev)])
                 /\ mem' = mem)]_vars

C12_Witness ==
  /\ Done
  /\ Top.op = "assign"
  /\ Top.ev = "a"
  /\ listeners["a"] = <<Count, Write(2)>>
  /\ Top.v = 1
  /\ mem["a"] = 2

\* C13: the step that begins a firing (set, set(property) or an assignment)
\* has already written the new value to the slot and has invoked no callback;
\* until the first callback runs the slot holds the new value, and the first
\* callback is handed the new value, not the one the slot held before the call.
C13_CommitThenNotify ==
  /\ [][(Idle /\ ~Idle')
          => (mem'[Top'.cell] = Top'.v /\ log' = <<>> /\ calls' = 0)]_vars
  /\ []((~Idle /\ log = <<>>) => mem[Top.cell] = Top.v)
  /\ []((~Idle /\ log # <<>>) => (log[1].idx = 1 /\ log[1].seen = Top.v))

C13_Witness ==
  /\ ~Idle
  /\ Top.ev = "p"
  /\ Top.op = "assign"
  /\ Top.old = 0
  /\ Top.v = 2
  /\ Len(log) = 1
  /\ log[1].cb = Count
  /\ log[1].seen = 2

\* C14: assigning an owned property to itself fires nothing and leaves its
\* value; assigning it from a distinct owned property (whatever value that
\* one holds, an equal one included) writes the value and begins a firing of
\* the target's callbacks, which invokes each of them once.
C14_OwnedAssignByIdentity ==
  /\ [][\A w \in LiveOwn, o \in LiveOwn :
          (Idle /\ ret' = Self /\ (AssignProp(w, o) \/ CopyAssign(w, o)))
          => IF w = o
               THEN Idle' /\ mem' = mem /\ listeners' = listeners
               ELSE listeners[w] # <<>> => Fires(w)']_vars
  /\ [][\A w \in LiveOwn, o \in LiveOwn :
          (Idle /\ ~Idle' /\ w # o /\ AssignProp(w, o))
          => (Fires(w)' /\ mem'[w] = mem[o])]_vars
  /\ []((Done /\ Top.op = "assignprop" /\ Top.ev \in OwnProps)
          => LogIdx = Iota(Len(listeners[Top.ev])))

\* C15: every step leaves each listener list as it was or extends it by one
\* entry at the end (so a list is always an extension of what it was in any
\* earlier state); a registration appends exactly its callback; every other
\* step (firing, set, read, assignment) leaves all the lists unchanged.
C15_ListenersAppendOnly ==
  /\ [][\A w \in DOMAIN listeners :
          /\ Len(listeners'[w]) \in {Len(listeners[w]), Len(listeners[w]) + 1}
          /\ SubSeq(listeners'[w], 1, Len(listeners[w])) = listeners[w]]_vars
  /\ [][\A w \in Live, cb \in Callbacks :
          Observe(w, cb) => listeners'[w] = Append(listeners[w], cb)]_vars
  /\ [][(listeners' # listeners)
          => \E w \in Live, cb \in Callbacks : Observe(w, cb)]_vars

\* C16: the invocation of a callback that rewrites the value it is handed
\* stores the new value in the property's slot (the bound variable for a
\* reference property) and starts no firing: the same firing goes on with the
\* next callback.  When set(v) is about to return every callback has been
\* invoked exactly once and get() is what the last callback left (v when
\* there is none).
C16_RewriteDoesNotRefire ==
  /\ [][(~Idle /\ Top.i <= Len(listeners[Top.ev])
               /\ listenerAt(Top)[1] = "write")
          => /\ mem'[slot(Top.ev)] = listenerAt(Top)[2]
             /\ Len(stack') = Len(stack)
             /\ Top'.i = Top.i + 1
             /\ Len(log') = Len(log) + 1]_vars
  /\ []((Done /\ Top.op = "set")
          => /\ LogIdx = Iota(Len(listeners[Top.ev]))
             /\ get(Top.ev) = IF log = <<>> THEN Top.v
                                             ELSE Left(log[Len(log)]))

C16_Witness ==
  /\ Done
  /\ Top.op = "set"
  /\ Top.ev = "p"
  /\ listeners["p"] = <<Write(2), Count>>
  /\ Top.v = 1
  /\ calls = 1
  /\ log[2].seen = 2
  /\ mem["x"] = 2

\* C17: when callback i of a firing started by p.set(v) calls p.set(w), the
\* nested firing starts at the first callback and the outer firing does not
\* move while it runs; the nested set returns only after all n callbacks were
\* invoked, once each and in order, and the outer firing then goes on at
\* callback i+1 with the value the nested firing left; at its end the outer
\* firing has invoked each of the n callbacks exactly once; when no callback
\* rewrites the value, the outer callbacks after i are handed w; and every
\* call the program makes comes back to it.
C17_ReentrantSet ==
  /\ [](~Idle => LogIdx = Iota(Top.i - 1))
  /\ [](Len(stack) = 2
          => /\ Top.saved # <<>>
             /\ Top.saved[Len(Top.saved)].cb = Reenter(Top.v)
             /\ stack[1].i = Len(Top.saved) + 1)
  /\ [][(Len(stack) = 1 /\ Len(stack') = 2)
          => (Top'.i = 1 /\ log' = <<>> /\ mem'[Top'.cell] = Top'.v)]_vars
  /\ [][(Len(stack) = 2 /\ Len(stack') = 2) => stack'[1] = stack[1]]_vars
  /\ [][(Len(stack) = 2 /\ Len(stack') = 1)
          => /\ LogIdx = Iota(Len(listeners[Top.ev]))
             /\ stack'[1] = stack[1]
             /\ log' = Top.saved
             /\ mem' = mem]_vars
  /\ []((Len(stack) = 1 /\ Done) => LogIdx = Iota(Len(listeners[Top.ev])))
  /\ []((Len(stack) = 1 /\ NoRewriter(Top.ev))
          => \A j \in 1..Len(log) :
               LastReentry(j) # 0 => log[j].seen = log[LastReentry(j)].cb[2])
  /\ (~Idle ~> Idle)

C17_Witness ==
  /\ Len(stack) = 1
  /\ Done
  /\ listeners["p"] = <<Count, Reenter(1), Count>>
  /\ Top.v = 0
  /\ Len(log) = 3
  /\ log[2].seen = 0
  /\ log[3].seen = 1
  /\ calls = 4

\* C18: a reference property's get() is its referent in every state.  For
\* reference properties bound to the same variable, p.set(v) makes get() of
\* each of them v and begins a firing of p's event only, in which only p's
\* callbacks are invoked; a write of the variable by the caller changes
\* get() of each of them to the value written and invokes nothing.
C18_AliasesShareStorageNotEvents ==
  /\ [](\A w \in DOMAIN ref : get(w) = mem[ref[w]])
  /\ [][(Idle /\ ~Idle' /\ Top'.op = "set")
          => \A w \in DOMAIN ref :
               (\E v \in Val : set(w, v))
               => /\ Top'.ev = w
                  /\ Len(stack') = 1
                  /\ \A o \in DOMAIN ref :
                        ref[o] = ref[w] => get(o)' = Top'.v]_vars
  /\ [](~Idle => \A k \in 1..Len(log) :
                    log[k].ev = Top.ev /\ log[k].cb = listeners[Top.ev][k])
  /\ [][\A x \in LiveVars, v \in Val :
          ExtWrite(x, v)
          => /\ \A w \in DOMAIN ref : ref[w] = x => get(w)' = v
             /\ Idle' /\ log' = log /\ calls' = 0
             /\ listeners' = listeners]_vars

C18_Witness ==
  /\ Done
  /\ Top.op = "set"
  /\ Top.ev = "p"
  /\ "q" \in DOMAIN ref
  /\ ref["q"] = "x"
  /\ listeners["p"] = <<Count>>
  /\ listeners["q"] = <<Count>>
  /\ Top.old = 0
  /\ Top.v = 2
  /\ get("q") = 2
  /\ calls = 1

\* C19: move-constructing a reference property q from o gives a property q
\* bound to the variable o was bound to, with an empty listener list (so the
\* callbacks registered on o are not q's), and leaves every value as it is.
C19_MoveConstructTransfersAlias ==
  [][\A q \in RefProps, o \in DOMAIN ref :
       MoveConstruct(q, o)
       => /\ q \in DOMAIN ref'
          /\ ref'[q] = ref[o]
          /\ q \in DOMAIN listeners'
          /\ listeners'[q] = <<>>
          /\ mem' = mem]_vars

\* C20: every call of set(v) or `p = v` begins exactly one firing of the
\* property's event, whether or not v is the value already stored, and that
\* firing, run to its end, has invoked every callback exactly once: there is
\* one firing per call, not one per change of value.
C20_NoChangeDetection ==
  /\ [][\A w \in Live, v \in Val :
          (Idle /\ ret' = Void /\ (set(w, v) \/ AssignVal(w, v)))
          => (Fires(w)' /\ Len(stack') = 1 /\ Top'.v = v
                       /\ Top'.old = get(w))]_vars
  /\ []((Done /\ Top.op \in {"set", "assign"})
          => LogIdx = Iota(Len(listeners[Top.ev])))

C20_Witness ==
  /\ Done
  /\ Top.op = "set"
  /\ Top.ev = "a"
  /\ Top.old = 1
  /\ Top.v = 1
  /\ mem["a"] = 1
  /\ listeners["a"] = <<Count, Count>>
  /\ calls = 2

====
